---------------------------- MODULE Spec2Model ----------------------------
(***************************************************************************)
(* A model of the two React components of the repository:                  *)
(*   SignatureDemo (src/src/components/SignatureDemo.tsx): ECDSA key pair, *)
(*     sign, verify, verify with a tampered message or signature;          *)
(*   HashAvalanche (src/unnamed/part_000): SHA-256 of an input and of five *)
(*     mutations of it, and the Hamming distance between the digests.      *)
(* Text made of hex digits is a sequence of one-character strings; message *)
(* and input text is a sequence of code points; bytes are 0..255.          *)
(***************************************************************************)
EXTENDS Integers, Sequences, FiniteSets, TLC

(***************************************************************************)
(* Bounds of the model.                                                    *)
(***************************************************************************)
\* longest byte sequence given to the hex round trip
MaxBytes == 2
\* longest text given to hexToBuffer
MaxHexLen == 3
\* longest text typed into the avalanche input field
MaxInputLen == 2
\* number of distinct signatures the provider can return for one message
\* (ECDSA is randomised)
MaxNonce == 2

(***************************************************************************)
(* Encoding helpers.                                                       *)
(***************************************************************************)
HexDigitChars == <<"0", "1", "2", "3", "4", "5", "6", "7",
                   "8", "9", "a", "b", "c", "d", "e", "f">>

UpperHexChars == <<"A", "B", "C", "D", "E", "F">>

\* Number.prototype.toString(16) of a non-negative integer
RECURSIVE ToString16(_)
ToString16(n) ==
    IF n < 16 THEN <<HexDigitChars[n + 1]>>
    ELSE ToString16(n \div 16) \o <<HexDigitChars[(n % 16) + 1]>>

\* Number.prototype.toString(2) of a non-negative integer
RECURSIVE ToString2(_)
ToString2(n) ==
    IF n < 2 THEN <<HexDigitChars[n + 1]>>
    ELSE ToString2(n \div 2) \o <<HexDigitChars[(n % 2) + 1]>>

\* String.prototype.padStart(targetLength, padChar)
RECURSIVE PadStart(_, _, _)
PadStart(s, targetLength, padChar) ==
    IF Len(s) >= targetLength THEN s
    ELSE PadStart(<<padChar>> \o s, targetLength, padChar)

\* Array.prototype.join('') of a sequence of texts, joined by halves
RECURSIVE Join(_)
Join(parts) ==
    IF Len(parts) = 0 THEN <<>>
    ELSE IF Len(parts) = 1 THEN parts[1]
    ELSE LET mid == Len(parts) \div 2
         IN  Join(SubSeq(parts, 1, mid)) \o Join(SubSeq(parts, mid + 1, Len(parts)))

\* bufferToHex, without the zero padding of each byte
bufferToHex_noPad(buf) ==
    Join([i \in 1..Len(buf) |-> ToString16(buf[i])])

\* bufferToHex(buf): arr.map(b => b.toString(16).padStart(2, '0')).join('')
bufferToHex(buf) ==
    Join([i \in 1..Len(buf) |-> PadStart(ToString16(buf[i]), 2, "0")])

IsHexDigit(c) ==
    \/ \E k \in 1..16 : HexDigitChars[k] = c
    \/ \E k \in 1..6 : UpperHexChars[k] = c

\* the value of one hex digit, either case
HexDigitValue(c) ==
    IF \E k \in 1..16 : HexDigitChars[k] = c
    THEN (CHOOSE k \in 1..16 : HexDigitChars[k] = c) - 1
    ELSE (CHOOSE k \in 1..6 : UpperHexChars[k] = c) + 9

IsWhiteSpace(c) == c = " "

RECURSIVE TrimStart(_)
TrimStart(s) ==
    IF s # <<>> /\ IsWhiteSpace(Head(s)) THEN TrimStart(Tail(s)) ELSE s

\* the longest prefix of s made of hex digits
RECURSIVE HexPrefix(_)
HexPrefix(s) ==
    IF s # <<>> /\ IsHexDigit(Head(s)) THEN <<Head(s)>> \o HexPrefix(Tail(s))
    ELSE <<>>

RECURSIVE HexNumber(_, _)
HexNumber(digits, acc) ==
    IF digits = <<>> THEN acc
    ELSE HexNumber(Tail(digits), acc * 16 + HexDigitValue(Head(digits)))

\* parseInt(s, 16): leading white space is skipped, then an optional sign,
\* then an optional 0x, then the longest run of hex digits; NaN when that run
\* is empty.
parseInt16(s) ==
    LET trimmed == TrimStart(s)
        negative == trimmed # <<>> /\ Head(trimmed) = "-"
        unsigned == IF trimmed # <<>> /\ Head(trimmed) \in {"+", "-"}
                    THEN Tail(trimmed) ELSE trimmed
        stripped == IF Len(unsigned) >= 2 /\ unsigned[1] = "0"
                       /\ unsigned[2] \in {"x", "X"}
                    THEN SubSeq(unsigned, 3, Len(unsigned)) ELSE unsigned
        digits == HexPrefix(stripped)
    IN  IF digits = <<>> THEN [nan |-> TRUE, value |-> 0]
        ELSE [nan |-> FALSE,
              value |-> IF negative THEN 0 - HexNumber(digits, 0)
                        ELSE HexNumber(digits, 0)]

\* the conversion of a number stored into a Uint8Array element
ToUint8(n) == IF n.nan THEN 0 ELSE n.value % 256

\* String.prototype.substr(start, length), start counted from 0
Substr(s, start, length) ==
    SubSeq(s, start + 1, IF start + length > Len(s) THEN Len(s) ELSE start + length)

\* buf[index] = value on a typed array: a store outside the array is ignored
TypedArrayStore(buf, index, value) ==
    IF index >= 0 /\ index < Len(buf)
    THEN [buf EXCEPT ![index + 1] = value]
    ELSE buf

\* hexToBuffer with a buffer of hex.length bytes
hexToBuffer_textLength(hex) ==
    [k \in 1..Len(hex) |->
        IF 2 * (k - 1) < Len(hex)
        THEN ToUint8(parseInt16(Substr(hex, 2 * (k - 1), 2)))
        ELSE 0]

\* hexToBuffer(hex): new Uint8Array(hex.length / 2) truncates the length to
\* an integer; the loop's pass at i stores element i / 2 from the two
\* characters at i, and the last pass of a text of odd length stores outside
\* the array, which is ignored. It never throws, whatever the text.
hexToBuffer(hex) ==
    [k \in 1..(Len(hex) \div 2) |->
        ToUint8(parseInt16(Substr(hex, 2 * (k - 1), 2)))]

\* TextEncoder.encode of one code point below 0x800
Utf8OfCodePoint(cp) ==
    IF cp < 128 THEN <<cp>>
    ELSE <<192 + (cp \div 64), 128 + (cp % 64)>>

\* new TextEncoder().encode(text)
TextEncode(text) == Join([i \in 1..Len(text) |-> Utf8OfCodePoint(text[i])])


(***************************************************************************)
(* HashAvalanche: pure functions.                                          *)
(***************************************************************************)
\* bytes of a SHA-256 digest
DigestBytes == 32

\* multiplier to the power exponent, modulo modulus, by halving
RECURSIVE PowMod(_, _, _)
PowMod(multiplier, exponent, modulus) ==
    IF exponent = 0 THEN 1
    ELSE LET half == PowMod(multiplier, exponent \div 2, modulus)
             square == (half * half) % modulus
         IN  IF exponent % 2 = 0 THEN square ELSE (square * multiplier) % modulus

\* the polynomial in multiplier whose coefficients are the bytes plus one,
\* modulo modulus, computed by halves
RECURSIVE DigestAbsorb(_, _, _)
DigestAbsorb(bytes, multiplier, modulus) ==
    IF Len(bytes) = 0 THEN 0
    ELSE IF Len(bytes) = 1 THEN (bytes[1] + 1) % modulus
    ELSE LET mid == Len(bytes) \div 2
             left == DigestAbsorb(SubSeq(bytes, 1, mid), multiplier, modulus)
             right == DigestAbsorb(SubSeq(bytes, mid + 1, Len(bytes)),
                                   multiplier, modulus)
         IN  (left * PowMod(multiplier, Len(bytes) - mid, modulus) + right) % modulus

\* crypto.subtle.digest('SHA-256', bytes) stood in for by a deterministic
\* mixing function with a 32-byte output: two accumulators absorb every byte
\* and the length, and each output byte is drawn from both.
subtleDigest(bytes) ==
    LET acc1 == DigestAbsorb(<<78>> \o bytes, 131, 8191)
        acc2 == DigestAbsorb(<<12>> \o bytes, 31, 4093)
    IN  [k \in 1..DigestBytes |->
            (((acc1 + k) * (acc2 + 2 * k + 1)) \div 7) % 256]

\* sha256HexFromBytes(bytes), once the digest promise resolves
sha256HexFromBytes(bytes) ==
    LET arr == subtleDigest(bytes)
    IN  Join([i \in 1..Len(arr) |-> PadStart(ToString16(arr[i]), 2, "0")])

\* parseInt(h, 16).toString(2) of one character; NaN prints as "NaN"
CharToString2(h) ==
    LET n == parseInt16(<<h>>)
    IN  IF n.nan THEN <<"N", "a", "N">> ELSE ToString2(n.value)

\* hexToBits, without the zero padding of each group
hexToBits_noPad(hex) ==
    Join([i \in 1..Len(hex) |-> CharToString2(hex[i])])

\* hexToBits(hex): four bits per character
hexToBits(hex) ==
    Join([i \in 1..Len(hex) |-> PadStart(CharToString2(hex[i]), 4, "0")])

Min(x, y) == IF x < y THEN x ELSE y

\* hamming(a, b): the loop counts the indices below the shorter length at
\* which the two texts differ
hamming(a, b) ==
    Cardinality({i \in 0..(Min(Len(a), Len(b)) - 1) : a[i + 1] # b[i + 1]})

\* a ^ b on bytes
RECURSIVE BitXor(_, _)
BitXor(a, b) ==
    IF a = 0 /\ b = 0 THEN 0
    ELSE 2 * BitXor(a \div 2, b \div 2) + ((a + b) % 2)

\* mutateByteFlip(input, byteIndex, bitMask)
mutateByteFlip(text, byteIndex, bitMask) ==
    LET enc == TextEncode(text)
    IN  IF Len(enc) = 0 THEN enc
        ELSE TypedArrayStore(enc, byteIndex % Len(enc),
                             BitXor(enc[(byteIndex % Len(enc)) + 1], bitMask))

\* mutateCharChange without the return of the empty encoding
mutateCharChange_noEmptyReturn(text, index, newChar) ==
    LET enc == TextEncode(text)
    IN  IF Len(enc) = 0 THEN TextEncode(<<newChar>>)
        ELSE TypedArrayStore(enc, (index + Len(enc)) % Len(enc),
                             TextEncode(<<newChar>>)[1])

\* mutateCharChange with the index taken as given, not wrapped by the length
mutateCharChange_noWrap(text, index, newChar) ==
    LET enc == TextEncode(text)
    IN  IF Len(enc) = 0 THEN enc
        ELSE TypedArrayStore(enc, index, TextEncode(<<newChar>>)[1])

\* mutateCharChange(input, index, newChar)
mutateCharChange(text, index, newChar) ==
    LET enc == TextEncode(text)
    IN  IF Len(enc) = 0 THEN enc
        ELSE TypedArrayStore(enc, (index + Len(enc)) % Len(enc),
                             TextEncode(<<newChar>>)[1])

VariantNames == <<"original", "append space", "change first char",
                  "flip one bit in first byte", "flip 0x80 bit in first byte",
                  "change last char">>

\* the variants array built by run
BuildVariants(text) ==
    << [name |-> "original", bytes |-> TextEncode(text)],
       [name |-> "append space", bytes |-> TextEncode(text \o <<32>>)],
       [name |-> "change first char", bytes |-> mutateCharChange(text, 0, 90)],
       [name |-> "flip one bit in first byte", bytes |-> mutateByteFlip(text, 0, 1)],
       [name |-> "flip 0x80 bit in first byte", bytes |-> mutateByteFlip(text, 0, 128)],
       [name |-> "change last char", bytes |-> mutateCharChange(text, -1, 122)] >>

\* one element pushed on computed
DigestRow(v) ==
    LET hex == sha256HexFromBytes(v.bytes)
    IN  [name |-> v.name, hex |-> hex, bits |-> hexToBits(hex), bytes |-> v.bytes]

(***************************************************************************)
(* State.                                                                  *)
(***************************************************************************)
VARIABLES
    \* SignatureDemo: the component's state
    keyPair, message, signature, isValid, loading,
    tamperedMessage, tamperedSignature,
    \* SignatureDemo: the mount effect's position, the handler in flight
    mountPc, pending,
    \* SignatureDemo: the last handler that ran to its end, the message of
    \* the sign that produced the stored signature
    lastDone, signedMessage,
    \* HashAvalanche: the component's state
    input, results, running,
    \* HashAvalanche: the position of run and its locals
    runPc, variants, computed,
    \* the encoding helpers applied to one argument
    fnArg, fnOut

signatureVars == <<keyPair, message, signature, isValid, loading,
                   tamperedMessage, tamperedSignature, mountPc, pending,
                   lastDone, signedMessage>>

avalancheVars == <<input, results, running, runPc, variants, computed>>

helperVars == <<fnArg, fnOut>>

vars == <<keyPair, message, signature, isValid, loading,
          tamperedMessage, tamperedSignature, mountPc, pending,
          lastDone, signedMessage,
          input, results, running, runPc, variants, computed,
          fnArg, fnOut>>

\* all sequences over chars of length at most n
RECURSIVE SeqsUpTo(_, _)
SeqsUpTo(chars, n) ==
    IF n = 0 THEN {<<>>}
    ELSE LET shorter == SeqsUpTo(chars, n - 1)
         IN  shorter \cup {Append(t, c) : t \in shorter, c \in chars}

(***************************************************************************)
(* HashAvalanche: the component.                                           *)
(***************************************************************************)
\* useState('The quick brown fox jumps over the lazy dog')
InitialInput == <<84, 104, 101, 32, 113, 117, 105, 99, 107, 32, 98, 114, 111,
                  119, 110, 32, 102, 111, 120, 32, 106, 117, 109, 112, 115, 32,
                  111, 118, 101, 114, 32, 116, 104, 101, 32, 108, 97, 122, 121,
                  32, 100, 111, 103>>

\* code points the user types into the input field: 'a' and e-acute
InputChars == {97, 233}

InputTexts == SeqsUpTo(InputChars, MaxInputLen) \cup {InitialInput}

\* the input field's onChange
SetInput ==
    /\ \E text \in InputTexts : input' = text
    /\ UNCHANGED <<results, running, runPc, variants, computed>>
    /\ UNCHANGED <<signatureVars, helperVars>>

\* the Hash button (disabled while running) calls run, which goes as far as
\* its first await
ClickHash ==
    /\ ~running
    /\ running' = TRUE
    /\ variants' = BuildVariants(input)
    /\ computed' = <<>>
    /\ runPc' = "digesting"
    /\ UNCHANGED <<input, results>>
    /\ UNCHANGED <<signatureVars, helperVars>>

\* a digest promise resolves, publishing computed after every push
DigestResolve_publishEach ==
    /\ runPc = "digesting"
    /\ LET pushed == Append(computed, DigestRow(variants[Len(computed) + 1]))
       IN  IF Len(pushed) < Len(variants)
           THEN /\ computed' = pushed
                /\ results' = pushed
                /\ UNCHANGED <<running, runPc, variants>>
           ELSE /\ results' = pushed
                /\ running' = FALSE
                /\ runPc' = "idle"
                /\ variants' = <<>>
                /\ computed' = <<>>
    /\ UNCHANGED input
    /\ UNCHANGED <<signatureVars, helperVars>>

\* a digest promise resolves, the next variant rebuilt from the input field
\* as it is now
DigestResolve_readsInput ==
    /\ runPc = "digesting"
    /\ LET pushed == Append(computed,
                            DigestRow(BuildVariants(input)[Len(computed) + 1]))
       IN  IF Len(pushed) < Len(variants)
           THEN /\ computed' = pushed
                /\ UNCHANGED <<results, running, runPc, variants>>
           ELSE /\ results' = pushed
                /\ running' = FALSE
                /\ runPc' = "idle"
                /\ variants' = <<>>
                /\ computed' = <<>>
    /\ UNCHANGED input
    /\ UNCHANGED <<signatureVars, helperVars>>

\* a digest promise resolves: the row is pushed on computed and the loop goes
\* on to the next await; after the last variant, setResults(computed) and
\* setRunning(false)
DigestResolve ==
    /\ runPc = "digesting"
    /\ LET pushed == Append(computed, DigestRow(variants[Len(computed) + 1]))
       IN  IF Len(pushed) < Len(variants)
           THEN /\ computed' = pushed
                /\ UNCHANGED <<results, running, runPc, variants>>
           ELSE /\ results' = pushed
                /\ running' = FALSE
                /\ runPc' = "idle"
                /\ variants' = <<>>
                /\ computed' = <<>>
    /\ UNCHANGED input
    /\ UNCHANGED <<signatureVars, helperVars>>

\* a digest promise rejects: run ends there, with no catch and no finally
DigestReject ==
    /\ runPc = "digesting"
    /\ runPc' = "failed"
    /\ variants' = <<>>
    /\ computed' = <<>>
    /\ UNCHANGED <<input, results, running>>
    /\ UNCHANGED <<signatureVars, helperVars>>

\* const baseBits = results.length ? results[0].bits : ''
baseBits == IF Len(results) > 0 THEN results[1].bits ELSE <<>>

\* the third cell of the table row of results[i - 1]
RowCell(i) ==
    IF i = 1 THEN [kind |-> "dash"]
    ELSE LET dist == IF baseBits # <<>> THEN hamming(baseBits, results[i].bits)
                     ELSE 0
         IN  [kind |-> "distance", dist |-> dist,
              \* ((dist / 256) * 100).toFixed(1), in tenths of a percent
              pctTenths |-> (dist * 1000 + 128) \div 256]

(***************************************************************************)
(* SignatureDemo: the provider, taken as ideal.                            *)
(***************************************************************************)
\* bytes of a raw ECDSA P-256 signature, r || s
SignatureBytes == 64

Nonces == 1..MaxNonce

\* crypto.subtle.sign({name: 'ECDSA', hash: 'SHA-256'}, privateKey, enc) for
\* the one key pair of the session, with the random nonce it drew: r comes
\* from the nonce, s from the nonce and the digest of the message bytes
subtleSign(enc, nonce) ==
    LET r == subtleDigest(<<nonce>>)
        e == subtleDigest(enc)
    IN  r \o [k \in 1..DigestBytes |-> (e[k] + 3 * r[k] + nonce) % 256]

\* crypto.subtle.verify(..., publicKey, sig, enc): true exactly for a
\* signature made from the same message bytes; a signature of another length
\* is false, not an error
subtleVerify(sig, enc) ==
    /\ Len(sig) = SignatureBytes
    /\ \E nonce \in Nonces : sig = subtleSign(enc, nonce)

\* signMessage(message, privateKey), once the promise resolves
signMessage(text, nonce) == subtleSign(TextEncode(text), nonce)

\* verifySignature(message, signature, publicKey), once the promise resolves
verifySignature(text, sig) == subtleVerify(sig, TextEncode(text))

(***************************************************************************)
(* SignatureDemo: the component.                                           *)
(***************************************************************************)
\* useState('Sign this message')
InitialMessage == <<83, 105, 103, 110, 32, 116, 104, 105, 115, 32, 109, 101,
                    115, 115, 97, 103, 101>>

\* texts the user types into the message fields: the initial one and "hi"
MessageTexts == {InitialMessage, <<104, 105>>, <<>>}

\* texts the user types into the tampered signature field: nothing, the
\* signature shown (as it is, with its first digit changed, with its last
\* digit dropped, with a last letter that is no hex digit) and a short text
\* that is no hex at all
TamperedSignatureTexts ==
    {<<>>, <<"z", "z">>} \cup
    (IF signature = <<>> THEN {}
     ELSE { signature,
            [signature EXCEPT ![1] = IF @ = "0" THEN "1" ELSE "0"],
            SubSeq(signature, 1, Len(signature) - 1),
            [signature EXCEPT ![Len(signature)] = "z"] })

NoPending == [op |-> "none", message |-> <<>>, text |-> <<>>, sig |-> <<>>]

BoolText(b) == IF b THEN "true" ELSE "false"

\* the mount effect: generateKeyPair resolves and setKeyPair(pair)
GenerateKeyPairResolve ==
    /\ mountPc = "generating"
    /\ keyPair' = "keyPair"
    /\ mountPc' = "done"
    /\ UNCHANGED <<message, signature, isValid, loading, tamperedMessage,
                   tamperedSignature, pending, lastDone, signedMessage>>
    /\ UNCHANGED <<avalancheVars, helperVars>>

\* the mount effect: generateKeyPair rejects and the key pair stays null
GenerateKeyPairReject ==
    /\ mountPc = "generating"
    /\ mountPc' = "failed"
    /\ UNCHANGED <<keyPair, message, signature, isValid, loading,
                   tamperedMessage, tamperedSignature, pending, lastDone,
                   signedMessage>>
    /\ UNCHANGED <<avalancheVars, helperVars>>

\* the message textarea's onChange
SetMessage ==
    /\ \E text \in MessageTexts : message' = text
    /\ UNCHANGED <<keyPair, signature, isValid, loading, tamperedMessage,
                   tamperedSignature, mountPc, pending, lastDone,
                   signedMessage>>
    /\ UNCHANGED <<avalancheVars, helperVars>>

\* the verify section rendered whether or not a signature is set
VerifySectionShown_always == TRUE

\* the verify section is rendered only when a signature is set
VerifySectionShown == signature # <<>>

\* the tampered message textarea's onChange
SetTamperedMessage ==
    /\ VerifySectionShown
    /\ \E text \in MessageTexts : tamperedMessage' = text
    /\ UNCHANGED <<keyPair, message, signature, isValid, loading,
                   tamperedSignature, mountPc, pending, lastDone,
                   signedMessage>>
    /\ UNCHANGED <<avalancheVars, helperVars>>

\* the tampered signature textarea's onChange
SetTamperedSignature ==
    /\ VerifySectionShown
    /\ \E text \in TamperedSignatureTexts : tamperedSignature' = text
    /\ UNCHANGED <<keyPair, message, signature, isValid, loading,
                   tamperedMessage, mountPc, pending, lastDone,
                   signedMessage>>
    /\ UNCHANGED <<avalancheVars, helperVars>>

\* a handler starts: setLoading(true) and the call it awaits
StartPending(op, text, sigText) ==
    /\ loading' = TRUE
    /\ pending' = [op |-> op, message |-> text, text |-> sigText,
                   sig |-> hexToBuffer(sigText)]
    /\ UNCHANGED <<keyPair, message, signature, isValid, tamperedMessage,
                   tamperedSignature, mountPc, lastDone, signedMessage>>

\* handleSign, as far as its await
handleSign ==
    IF keyPair = "null" THEN UNCHANGED vars
    ELSE /\ loading' = TRUE
         /\ pending' = [NoPending EXCEPT !.op = "sign", !.message = message]
         /\ UNCHANGED <<keyPair, message, signature, isValid, tamperedMessage,
                        tamperedSignature, mountPc, lastDone, signedMessage>>

\* handleVerify, as far as its await
handleVerify ==
    IF keyPair = "null" \/ signature = <<>> THEN UNCHANGED vars
    ELSE StartPending("verify", message, signature)

\* handleVerifyTamperedMessage, as far as its await
handleVerifyTamperedMessage ==
    IF keyPair = "null" \/ signature = <<>> THEN UNCHANGED vars
    ELSE StartPending("verifyTamperedMessage", tamperedMessage, signature)

\* handleVerifyTamperedSignature, as far as its await
handleVerifyTamperedSignature ==
    IF keyPair = "null" \/ tamperedSignature = <<>> THEN UNCHANGED vars
    ELSE StartPending("verifyTamperedSignature", message, tamperedSignature)

\* the Sign Message button, disabled={loading || !keyPair}
ClickSign ==
    /\ ~(loading \/ keyPair = "null")
    /\ handleSign
    /\ UNCHANGED <<avalancheVars, helperVars>>

\* the Verify (Original) button without its disabled={loading}
ClickVerify_whileLoading ==
    /\ VerifySectionShown
    /\ handleVerify
    /\ UNCHANGED <<avalancheVars, helperVars>>

\* the Verify (Original) button, disabled={loading}
ClickVerify ==
    /\ VerifySectionShown
    /\ ~loading
    /\ handleVerify
    /\ UNCHANGED <<avalancheVars, helperVars>>

\* the Verify (Tampered Message) button, disabled={loading || !tamperedMessage}
ClickVerifyTamperedMessage ==
    /\ VerifySectionShown
    /\ ~(loading \/ tamperedMessage = <<>>)
    /\ handleVerifyTamperedMessage
    /\ UNCHANGED <<avalancheVars, helperVars>>

\* the Verify (Tampered Signature) button,
\* disabled={loading || !tamperedSignature}
ClickVerifyTamperedSignature ==
    /\ VerifySectionShown
    /\ ~(loading \/ tamperedSignature = <<>>)
    /\ handleVerifyTamperedSignature
    /\ UNCHANGED <<avalancheVars, helperVars>>

\* handleSign called with no key pair: its early return
SignRequestWithoutKeyPair ==
    /\ keyPair = "null"
    /\ ~loading
    /\ handleSign
    /\ UNCHANGED <<avalancheVars, helperVars>>

\* a verify handler called with no signature: its early return
VerifyRequestWithoutSignature ==
    /\ signature = <<>>
    /\ ~loading
    /\ \/ handleVerify
       \/ handleVerifyTamperedMessage
    /\ UNCHANGED <<avalancheVars, helperVars>>

\* the finally block of every handler
Finally(op) ==
    /\ loading' = FALSE
    /\ pending' = NoPending
    /\ lastDone' = op

\* handleSign after its await, without setIsValid(null)
SignResolve_keepOutcome ==
    /\ pending.op = "sign"
    /\ \E nonce \in Nonces :
           signature' = bufferToHex(signMessage(pending.message, nonce))
    /\ tamperedMessage' = <<>>
    /\ tamperedSignature' = <<>>
    /\ signedMessage' = pending.message
    /\ Finally("sign")
    /\ UNCHANGED <<keyPair, message, mountPc, isValid>>
    /\ UNCHANGED <<avalancheVars, helperVars>>

\* handleSign after its await: the signature promise resolved
SignResolve ==
    /\ pending.op = "sign"
    /\ \E nonce \in Nonces :
           signature' = bufferToHex(signMessage(pending.message, nonce))
    /\ tamperedMessage' = <<>>
    /\ tamperedSignature' = <<>>
    /\ isValid' = "null"
    /\ signedMessage' = pending.message
    /\ Finally("sign")
    /\ UNCHANGED <<keyPair, message, mountPc>>
    /\ UNCHANGED <<avalancheVars, helperVars>>

\* handleVerify after its await, discarding the stored signature
VerifyResolve_discardsSignature ==
    /\ pending.op = "verify"
    /\ isValid' = BoolText(verifySignature(pending.message, pending.sig))
    /\ tamperedMessage' = <<>>
    /\ tamperedSignature' = <<>>
    /\ signature' = <<>>
    /\ Finally("verify")
    /\ UNCHANGED <<keyPair, message, mountPc, signedMessage>>
    /\ UNCHANGED <<avalancheVars, helperVars>>

\* handleVerify after its await: the verification promise resolved
VerifyResolve ==
    /\ pending.op = "verify"
    /\ isValid' = BoolText(verifySignature(pending.message, pending.sig))
    /\ tamperedMessage' = <<>>
    /\ tamperedSignature' = <<>>
    /\ Finally("verify")
    /\ UNCHANGED <<keyPair, message, signature, mountPc, signedMessage>>
    /\ UNCHANGED <<avalancheVars, helperVars>>

\* handleVerifyTamperedMessage after its await
VerifyTamperedMessageResolve ==
    /\ pending.op = "verifyTamperedMessage"
    /\ isValid' = BoolText(verifySignature(pending.message, pending.sig))
    /\ tamperedSignature' = <<>>
    /\ Finally("verifyTamperedMessage")
    /\ UNCHANGED <<keyPair, message, signature, tamperedMessage, mountPc,
                   signedMessage>>
    /\ UNCHANGED <<avalancheVars, helperVars>>

\* handleVerifyTamperedSignature after its await
VerifyTamperedSignatureResolve ==
    /\ pending.op = "verifyTamperedSignature"
    /\ isValid' = BoolText(verifySignature(pending.message, pending.sig))
    /\ tamperedMessage' = <<>>
    /\ Finally("verifyTamperedSignature")
    /\ UNCHANGED <<keyPair, message, signature, tamperedSignature, mountPc,
                   signedMessage>>
    /\ UNCHANGED <<avalancheVars, helperVars>>

\* the awaited promise of any handler rejects: only the finally block runs
PendingReject ==
    /\ pending.op # "none"
    /\ Finally("rejected")
    /\ UNCHANGED <<keyPair, message, signature, isValid, tamperedMessage,
                   tamperedSignature, mountPc, signedMessage>>
    /\ UNCHANGED <<avalancheVars, helperVars>>

(***************************************************************************)
(* The encoding helpers applied to one argument.                           *)
(***************************************************************************)
\* bytes that cover one and two hex digits, digits and letters, both ends
SampleBytes == {0, 9, 10, 15, 16, 90, 171, 255}

\* characters of the texts given to hexToBuffer: hex digits of either case,
\* a letter that is none, a space and a sign
SampleChars == {"0", "9", "a", "f", "A", "F", "z", " ", "-"}

HelperArgs ==
    {[kind |-> "bytes", bytes |-> b, text |-> <<>>] :
        b \in SeqsUpTo(SampleBytes, MaxBytes) \cup {<<v>> : v \in 0..255}}
    \cup
    {[kind |-> "text", bytes |-> <<>>, text |-> t] :
        t \in SeqsUpTo(SampleChars, MaxHexLen)}

NoArg == [kind |-> "none", bytes |-> <<>>, text |-> <<>>]

NoOutcome == [kind |-> "none", hex |-> <<>>, bytes |-> <<>>]

\* bufferToHex(bytes), then hexToBuffer of the result
ApplyRoundTrip ==
    /\ fnArg.kind = "bytes"
    /\ fnOut = NoOutcome
    /\ fnOut' = [kind |-> "returned", hex |-> bufferToHex(fnArg.bytes),
                 bytes |-> hexToBuffer(bufferToHex(fnArg.bytes))]
    /\ UNCHANGED fnArg
    /\ UNCHANGED <<signatureVars, avalancheVars>>

\* hexToBuffer(text): the call returns a buffer for every text
ApplyHexToBuffer ==
    /\ fnArg.kind = "text"
    /\ fnOut = NoOutcome
    /\ fnOut' = [kind |-> "returned", hex |-> <<>>,
                 bytes |-> hexToBuffer(fnArg.text)]
    /\ UNCHANGED fnArg
    /\ UNCHANGED <<signatureVars, avalancheVars>>

(***************************************************************************)
(* Specifications.                                                         *)
(***************************************************************************)
SignatureNext ==
    \/ GenerateKeyPairResolve
    \/ GenerateKeyPairReject
    \/ SetMessage
    \/ SetTamperedMessage
    \/ SetTamperedSignature
    \/ ClickSign
    \/ ClickVerify
    \/ ClickVerifyTamperedMessage
    \/ ClickVerifyTamperedSignature
    \/ SignRequestWithoutKeyPair
    \/ VerifyRequestWithoutSignature
    \/ SignResolve
    \/ VerifyResolve
    \/ VerifyTamperedMessageResolve
    \/ VerifyTamperedSignatureResolve
    \/ PendingReject

AvalancheNext ==
    \/ SetInput
    \/ ClickHash
    \/ DigestResolve
    \/ DigestReject

HelperNext ==
    \/ ApplyRoundTrip
    \/ ApplyHexToBuffer

\* both components as constructed, no helper call in hand
Init ==
    /\ keyPair = "null"
    /\ message = InitialMessage
    /\ signature = <<>>
    /\ isValid = "null"
    /\ loading = FALSE
    /\ tamperedMessage = <<>>
    /\ tamperedSignature = <<>>
    /\ mountPc = "generating"
    /\ pending = NoPending
    /\ lastDone = "none"
    /\ signedMessage = <<>>
    /\ input = InitialInput
    /\ results = <<>>
    /\ running = FALSE
    /\ runPc = "idle"
    /\ variants = <<>>
    /\ computed = <<>>
    /\ fnArg = NoArg
    /\ fnOut = NoOutcome

\* both components as constructed, one helper call in hand
HelperInit ==
    /\ keyPair = "null"
    /\ message = InitialMessage
    /\ signature = <<>>
    /\ isValid = "null"
    /\ loading = FALSE
    /\ tamperedMessage = <<>>
    /\ tamperedSignature = <<>>
    /\ mountPc = "generating"
    /\ pending = NoPending
    /\ lastDone = "none"
    /\ signedMessage = <<>>
    /\ input = InitialInput
    /\ results = <<>>
    /\ running = FALSE
    /\ runPc = "idle"
    /\ variants = <<>>
    /\ computed = <<>>
    /\ fnArg \in HelperArgs
    /\ fnOut = NoOutcome

\* the SignatureDemo component
SignatureSpec == Init /\ [][SignatureNext]_vars

\* the HashAvalanche component
AvalancheSpec == Init /\ [][AvalancheNext]_vars

\* bufferToHex and hexToBuffer as functions of their argument
HelperSpec == HelperInit /\ [][HelperNext]_vars

(***************************************************************************)
(* Properties.                                                             *)
(***************************************************************************)
\* the run that published results was given the empty input
PublishedFromEmptyInput == results # <<>> /\ results[1].bytes = <<>>

\* C1, as stated: for the empty input all six variants are the empty byte
\* sequence and all five non-original rows report a Hamming distance of 0.
C1_AllSixVariantsEmpty ==
    PublishedFromEmptyInput =>
        /\ \A i \in 1..Len(results) : results[i].bytes = <<>>
        /\ \A i \in 2..Len(results) : RowCell(i).dist = 0

\* C1, amended: for the empty input the original and the four in-place
\* mutations (change first char, flip one bit, flip 0x80 bit, change last
\* char) are the empty byte sequence and their rows report a Hamming distance
\* of 0; append space is the single byte 0x20.
C1_MutationsOfEmptyInput ==
    PublishedFromEmptyInput =>
        /\ \A i \in {1, 3, 4, 5, 6} : results[i].bytes = <<>>
        /\ \A i \in {3, 4, 5, 6} : RowCell(i).dist = 0
        /\ results[2].name = "append space"
        /\ results[2].bytes = <<32>>

C1_Witness ==
    /\ PublishedFromEmptyInput
    /\ runPc = "idle"
    /\ RowCell(2).dist > 0

\* a text hexToBytes is to refuse: odd length, or a character outside
\* 0-9a-fA-F
InvalidHexText(text) ==
    \/ Len(text) % 2 = 1
    \/ \E i \in 1..Len(text) : ~IsHexDigit(text[i])

\* C2: hexToBuffer ends in an InvalidHexError outcome, returning no bytes,
\* for every text of odd length and every text with a character that is no
\* hex digit.
C2_InvalidHexIsRefused ==
    (fnArg.kind = "text" /\ fnOut.kind # "none" /\ InvalidHexText(fnArg.text))
        => fnOut.kind = "InvalidHexError"

\* a text that reads as a signature: hex digits only, two per signature byte
WellFormedSignatureText(text) ==
    /\ Len(text) = 2 * SignatureBytes
    /\ \A i \in 1..Len(text) : IsHexDigit(text[i])

\* the step in which the handler op runs to its end after its promise resolved
Completes(op) ==
    /\ pending.op = op
    /\ pending'.op = "none"
    /\ lastDone' = op

\* C3: in verifyTamperedSignature a text that cannot be read as a signature
\* ends in an error and never in the outcome false; only a well-formed
\* signature of the right length sets the outcome to false.
C3_MalformedIsNotFalse ==
    [][(Completes("verifyTamperedSignature") /\ isValid' = "false")
          => WellFormedSignatureText(pending.text)]_vars

LowerHexDigits == {HexDigitChars[k] : k \in 1..16}

\* C4: hexToBuffer(bufferToHex(b)) is b, and bufferToHex(b) is lower-case
\* hex with exactly two characters for each byte.
C4_HexRoundTrip ==
    (fnArg.kind = "bytes" /\ fnOut.kind = "returned") =>
        /\ fnOut.bytes = fnArg.bytes
        /\ Len(fnOut.hex) = 2 * Len(fnArg.bytes)
        /\ \A i \in 1..Len(fnOut.hex) : fnOut.hex[i] \in LowerHexDigits
        /\ \A k \in 1..Len(fnArg.bytes) :
               16 * HexDigitValue(fnOut.hex[2 * k - 1])
                   + HexDigitValue(fnOut.hex[2 * k]) = fnArg.bytes[k]

C4_Witness ==
    /\ fnArg.kind = "bytes"
    /\ fnOut.kind = "returned"
    /\ Len(fnArg.bytes) >= 2
    /\ fnArg.bytes[1] < 16
    /\ fnArg.bytes[2] > 159

\* C5: the published results are empty or exactly the six rows in the fixed
\* order of names; a partly filled list is never published, also not while a
\* run is in progress.
C5_SixRowsOrNone ==
    \/ results = <<>>
    \/ /\ Len(results) = 6
       /\ \A i \in 1..6 : results[i].name = VariantNames[i]

C5_Witness ==
    /\ runPc = "digesting"
    /\ Len(computed) > 0
    /\ Len(computed) < 6
    /\ Len(results) = 6
    /\ results[1].bytes # variants[1].bytes

\* C6: every completed sign stores the new signature and clears the
\* verification outcome and both tamper inputs, whatever the state before.
C6_SignClearsOutcome ==
    [][Completes("sign") =>
          /\ \E nonce \in Nonces :
                 signature' = bufferToHex(signMessage(pending.message, nonce))
          /\ verifySignature(pending.message, hexToBuffer(signature'))
          /\ isValid' = "null"
          /\ tamperedMessage' = <<>>
          /\ tamperedSignature' = <<>>]_vars

C6_Witness ==
    /\ lastDone = "sign"
    /\ isValid = "null"
    /\ signature # <<>>
    /\ signedMessage # message
    /\ tamperedMessage = <<>>
    /\ tamperedSignature = <<>>

VerifyOps == {"verify", "verifyTamperedMessage", "verifyTamperedSignature"}

\* C7: each of the three verifications sets the outcome and leaves the stored
\* signature, the message and the key pair as they were.
C7_VerifyKeepsSignature ==
    [][(\E op \in VerifyOps : Completes(op)) =>
          /\ isValid' = BoolText(verifySignature(pending.message, pending.sig))
          /\ signature' = signature
          /\ message' = message
          /\ keyPair' = keyPair]_vars

C7_Witness ==
    /\ lastDone = "verify"
    /\ isValid = "false"
    /\ signature # <<>>
    /\ keyPair # "null"

\* C8: the session follows NoKeys -> KeysReady -> Signed -> Verified: a
\* signature implies a key pair, an outcome implies a signature, and a sign
\* request with no key pair or a verify request with no signature changes
\* nothing.
C8_LegalOrder ==
    /\ [](signature # <<>> => keyPair # "null")
    /\ [](isValid # "null" => signature # <<>>)
    /\ [][(SignRequestWithoutKeyPair \/ VerifyRequestWithoutSignature)
             => UNCHANGED vars]_vars

C8_Witness ==
    /\ isValid # "null"
    /\ signature # <<>>
    /\ keyPair # "null"
    /\ lastDone = "verifyTamperedSignature"

\* C9: with an ideal provider, a Verify (Original) of the signature of the
\* last completed sign sets the outcome to true when the message it verifies
\* is the message that was signed.
C9_SignThenVerify ==
    [][(Completes("verify") /\ pending.message = signedMessage)
          => isValid' = "true"]_vars

C9_Witness ==
    /\ lastDone = "verify"
    /\ isValid = "true"
    /\ message = signedMessage
    /\ \E i \in 1..(Len(signature) \div 2) : signature[2 * i - 1] = "0"

\* C10: every distance shown for a non-original row is an integer in 0..256
\* between two bit strings of exactly 256 bits, four for each of the 64 hex
\* characters of a digest, and the original row shows no distance.
C10_DistanceBounds ==
    results # <<>> =>
        /\ RowCell(1).kind = "dash"
        /\ \A i \in 1..Len(results) :
               /\ Len(results[i].hex) = 64
               /\ Len(results[i].bits) = 256
        /\ Len(baseBits) = 256
        /\ \A i \in 2..Len(results) :
               /\ RowCell(i).kind = "distance"
               /\ RowCell(i).dist \in 0..256

C10_Witness ==
    /\ results # <<>>
    /\ \E i \in 2..Len(results) : RowCell(i).dist > 100
    /\ \E i \in 1..Len(results) : results[i].hex[1] = "0"

\* bytes with the byte at index (from 0) replaced by value
WithByte(bytes, index, value) == [bytes EXCEPT ![index + 1] = value]

\* C11: for a non-empty input each in-place mutation has the length of the
\* original bytes and differs from them only at its target: byte 0 is 0x5A,
\* byte 0 XOR 0x01, byte 0 XOR 0x80, the last byte is 0x7A; the original
\* bytes are the encoding of the input, untouched by building the variants.
C11_InPlaceMutations ==
    /\ [](\A rows \in {variants, results} :
            (rows # <<>> /\ rows[1].bytes # <<>>) =>
                LET orig == rows[1].bytes
                    byte0 == orig[1]
                IN  /\ \A i \in 3..6 : Len(rows[i].bytes) = Len(orig)
                    /\ rows[3].bytes = WithByte(orig, 0, 90)
                    /\ rows[4].bytes =
                           WithByte(orig, 0, IF byte0 % 2 = 0 THEN byte0 + 1
                                             ELSE byte0 - 1)
                    /\ rows[5].bytes =
                           WithByte(orig, 0, IF byte0 >= 128 THEN byte0 - 128
                                             ELSE byte0 + 128)
                    /\ rows[6].bytes = WithByte(orig, Len(orig) - 1, 122))
    /\ [][(runPc = "idle" /\ runPc' = "digesting")
             => variants'[1].bytes = TextEncode(input)]_vars

C11_Witness ==
    /\ results # <<>>
    /\ Len(results[1].bytes) >= 3
    /\ results[1].bytes[1] >= 128
    /\ results[6].bytes # results[1].bytes
    /\ results[3].bytes # results[6].bytes

\* C12: every started operation releases its busy flag, whether its crypto
\* call succeeds or fails: once no handler is suspended loading is false, and
\* once run is no longer digesting (it published, or a digest failed) running
\* is false.
C12_BusyFlagReleased ==
    /\ pending.op = "none" => ~loading
    /\ runPc # "digesting" => ~running

(***************************************************************************)
(* SignatureDemo: what is rendered.                                        *)
(***************************************************************************)
\* {isValid === true && ...}, inside the verify section
ValidBanner == VerifySectionShown /\ isValid = "true"

\* {isValid === false && tamperedMessage && ...}
MessageChangedBanner ==
    VerifySectionShown /\ isValid = "false" /\ tamperedMessage # <<>>

\* {isValid === false && tamperedSignature && ...}
SignatureChangedBanner ==
    VerifySectionShown /\ isValid = "false" /\ tamperedSignature # <<>>

\* C13: the outcome shown is never stale: whenever isValid is true, the
\* current message verifies against the stored signature.
C13_ValidIsCurrent ==
    isValid = "true" => verifySignature(message, hexToBuffer(signature))

\* C14: whenever the outcome is false exactly one INVALID banner is shown,
\* and it names the input tampered with in the last verification.
C14_OneInvalidBanner ==
    isValid = "false" =>
        /\ MessageChangedBanner # SignatureChangedBanner
        /\ lastDone = "verifyTamperedMessage" => MessageChangedBanner
        /\ lastDone = "verifyTamperedSignature" => SignatureChangedBanner

\* C15: at most one sign or verify is in flight: loading is true exactly
\* while a handler is suspended, a handler starts only while loading is false
\* and none is suspended, and isValid is written only by the completion of
\* the handler in flight, the one started last.
C15_OneInFlight ==
    /\ [](loading <=> pending.op # "none")
    /\ [][(pending' # pending /\ pending'.op # "none")
             => (~loading /\ pending.op = "none" /\ loading')]_vars
    /\ [][isValid' # isValid
             => \E op \in VerifyOps \cup {"sign"} : Completes(op)]_vars

C15_Witness ==
    /\ loading
    /\ pending.op = "verifyTamperedMessage"
    /\ pending.message # message
    /\ isValid = "false"
    /\ lastDone = "verifyTamperedSignature"

\* rows are the first rows that run computes for the variants built: each
\* has the name and the bytes of its variant, and the digest of those bytes
RowsOfVariants(rows, built) ==
    /\ Len(rows) <= Len(built)
    /\ \A i \in 1..Len(rows) :
           rows[i].name = built[i].name /\ rows[i].bytes = built[i].bytes
    /\ \A i \in 1..Len(rows) : rows[i].hex = sha256HexFromBytes(built[i].bytes)

\* C16: the six rows a run publishes all derive from the one input that was
\* current when it started, whatever is typed while the digests are computed,
\* and a run starts only when none is in progress: the variants are built
\* from the input at the start and stay as built, every row pushed and every
\* list published is made of them, and running is true exactly during a run.
C16_OneInputPerRun ==
    /\ [][(runPc # "digesting" /\ runPc' = "digesting")
             => (~running /\ running' /\ variants' = BuildVariants(input))]_vars
    /\ [][(runPc = "digesting" /\ runPc' = "digesting")
             => variants' = variants]_vars
    /\ [][(computed' # computed /\ runPc' = "digesting")
             => RowsOfVariants(computed', variants)]_vars
    /\ [][results' # results
             => (Len(results') = 6 /\ RowsOfVariants(results', variants))]_vars
    /\ [](running <=> runPc # "idle")

C16_Witness ==
    /\ runPc = "digesting"
    /\ Len(computed) >= 2
    /\ variants[1].bytes # TextEncode(input)
    /\ results # <<>>
    /\ results[1].bytes # variants[1].bytes

=============================================================================
